---- MODULE Spec2Model ----
(***************************************************************************)
(* The /api/run-demo handler of frontend/server.js: request validation,    *)
(* worker-script check, interpreter resolution, spawn of the Python worker, *)
(* accumulation of its stdout/stderr, and the conversion of the worker's    *)
(* exit into exactly one JSON response.                                     *)
(*                                                                         *)
(* Text is modelled as a sequence of one-character strings, so that        *)
(* split, trim, startsWith, substring and JSON.parse are computed on the    *)
(* characters as the JavaScript does.                                       *)
(***************************************************************************)
EXTENDS Integers, Sequences, FiniteSets, TLC

(***************************************************************************)
(* Bounds of the model and constants of the program                        *)
(***************************************************************************)

\* How many 'data' events a worker's stdout delivers at most.
MaxOutChunks == 3

\* How many 'data' events a worker's stderr delivers at most.
MaxErrChunks == 2

\* resultData.substring(0, 500) / errorData.substring(0, 500), server.js:247
ParsePreviewLen == 500

\* errorData.substring(0, 2000), server.js:252
ErrorPreviewLen == 2000

JobIds == {1, 2}

Min(a, b) == IF a < b THEN a ELSE b

(***************************************************************************)
(* JavaScript string primitives                                            *)
(***************************************************************************)

\* String.prototype.substring(a, b) for 0 <= a <= b: characters a .. b-1.
Substring(s, a, b) == SubSeq(s, a + 1, Min(b, Len(s)))

\* The characters String.prototype.trim removes, among those of the model.
IsTrimSpace(c) == c \in {" ", "\n", "\t", "\r"}

RECURSIVE TrimStart(_)
TrimStart(s) ==
    IF s # <<>> /\ IsTrimSpace(Head(s)) THEN TrimStart(Tail(s)) ELSE s

RECURSIVE TrimEnd(_)
TrimEnd(s) ==
    IF s # <<>> /\ IsTrimSpace(s[Len(s)])
    THEN TrimEnd(SubSeq(s, 1, Len(s) - 1))
    ELSE s

\* String.prototype.trim
Trim(s) == TrimEnd(TrimStart(s))

\* String.prototype.startsWith(c) for a one-character c.
StartsWith(s, c) == s # <<>> /\ s[1] = c

\* String.prototype.split('\n'): the pieces between the newlines, the empty
\* pieces included ('a\n' gives <<'a', ''>>).
RECURSIVE SplitFrom(_, _)
SplitFrom(s, start) ==
    LET nl == {i \in start..Len(s) : s[i] = "\n"}
    IN  IF nl = {}
        THEN <<SubSeq(s, start, Len(s))>>
        ELSE LET k == CHOOSE i \in nl : \A m \in nl : i <= m
             IN  <<SubSeq(s, start, k - 1)>> \o SplitFrom(s, k + 1)

SplitLines(s) == SplitFrom(s, 1)

(***************************************************************************)
(* JSON.parse, on the characters of the model: objects, arrays, strings    *)
(* without escapes, and non-negative integers (no leading zero, as JSON     *)
(* requires).  A value is <<"obj", f>> (f maps each key to its value, the last   *)
(* occurrence of a key winning), <<"arr", elements>>, <<"str", chars>> or   *)
(* <<"num", n>>.  A parse step returns [ok, val, pos]: pos is the index of  *)
(* the first character after the value.                                    *)
(***************************************************************************)

IsJsonSpace(c) == c \in {" ", "\n", "\t", "\r"}

IsDigit(c) == c \in {"0", "1", "2", "3", "4", "5", "6", "7", "8", "9"}

DigitValue(c) ==
    CASE c = "0" -> 0 [] c = "1" -> 1 [] c = "2" -> 2 [] c = "3" -> 3 [] c = "4" -> 4
      [] c = "5" -> 5 [] c = "6" -> 6 [] c = "7" -> 7 [] c = "8" -> 8
      [] c = "9" -> 9

ParseFail == [ok |-> FALSE, val |-> <<>>, pos |-> 0]

ParseOk(v, p) == [ok |-> TRUE, val |-> v, pos |-> p]

RECURSIVE SkipSpace(_, _)
SkipSpace(s, i) ==
    IF i <= Len(s) /\ IsJsonSpace(s[i]) THEN SkipSpace(s, i + 1) ELSE i

\* i is the index after the opening quote; the index of the closing quote, or
\* 0 when the string is unterminated or holds a control character or a
\* backslash escape (escapes are outside the characters of the model).
RECURSIVE ScanString(_, _)
ScanString(s, i) ==
    IF i > Len(s) THEN 0
    ELSE IF s[i] = "\"" THEN i
    ELSE IF s[i] \in {"\n", "\t", "\r", "\\"} THEN 0
    ELSE ScanString(s, i + 1)

\* The digits from index i on: [val, pos].
RECURSIVE ScanDigits(_, _, _)
ScanDigits(s, i, acc) ==
    IF i <= Len(s) /\ IsDigit(s[i])
    THEN ScanDigits(s, i + 1, 10 * acc + DigitValue(s[i]))
    ELSE ParseOk(<<"num", acc>>, i)

RECURSIVE ParseValue(_, _), ParseElements(_, _, _), ParseMembers(_, _, _)

\* value := ws (object | array | string | number) ; the caller skips the
\* whitespace after it.
ParseValue(s, i) ==
    LET k == SkipSpace(s, i)
    IN  IF k > Len(s) THEN ParseFail
        ELSE IF s[k] = "{"
        THEN LET m == SkipSpace(s, k + 1)
             IN  IF m <= Len(s) /\ s[m] = "}"
                 THEN ParseOk(<<"obj", <<>>>>, m + 1)
                 ELSE ParseMembers(s, m, <<>>)
        ELSE IF s[k] = "["
        THEN LET m == SkipSpace(s, k + 1)
             IN  IF m <= Len(s) /\ s[m] = "]"
                 THEN ParseOk(<<"arr", <<>>>>, m + 1)
                 ELSE ParseElements(s, m, <<>>)
        ELSE IF s[k] = "\""
        THEN LET q == ScanString(s, k + 1)
             IN  IF q = 0 THEN ParseFail
                 ELSE ParseOk(<<"str", SubSeq(s, k + 1, q - 1)>>, q + 1)
        ELSE IF s[k] = "0" THEN ParseOk(<<"num", 0>>, k + 1)
        ELSE IF IsDigit(s[k]) THEN ScanDigits(s, k, 0)
        ELSE ParseFail

\* elements := value (',' value)* ']'
ParseElements(s, i, acc) ==
    LET r == ParseValue(s, i)
    IN  IF ~r.ok THEN ParseFail
        ELSE LET k == SkipSpace(s, r.pos)
                 items == Append(acc, r.val)
             IN  IF k > Len(s) THEN ParseFail
                 ELSE IF s[k] = "]" THEN ParseOk(<<"arr", items>>, k + 1)
                 ELSE IF s[k] = "," THEN ParseElements(s, k + 1, items)
                 ELSE ParseFail

\* members := string ws ':' value (',' ws string ws ':' value)* '}'
ParseMembers(s, i, acc) ==
    LET k == SkipSpace(s, i)
    IN  IF k > Len(s) \/ s[k] # "\"" THEN ParseFail
        ELSE LET q == ScanString(s, k + 1)
             IN  IF q = 0 THEN ParseFail
                 ELSE LET c == SkipSpace(s, q + 1)
                      IN  IF c > Len(s) \/ s[c] # ":" THEN ParseFail
                          ELSE LET r == ParseValue(s, c + 1)
                               IN  IF ~r.ok THEN ParseFail
                                   ELSE LET e == SkipSpace(s, r.pos)
                                            key == SubSeq(s, k + 1, q - 1)
                                            fields == (key :> r.val) @@ acc
                                        IN  IF e > Len(s) THEN ParseFail
                                            ELSE IF s[e] = "}"
                                            THEN ParseOk(<<"obj", fields>>, e + 1)
                                            ELSE IF s[e] = ","
                                            THEN ParseMembers(s, e + 1, fields)
                                            ELSE ParseFail

\* JSON.parse(text): [ok, val]; ok is FALSE where JSON.parse throws.
JSONParse(text) ==
    LET r == ParseValue(text, 1)
    IN  IF r.ok /\ SkipSpace(text, r.pos) > Len(text)
        THEN [ok |-> TRUE, val |-> r.val]
        ELSE [ok |-> FALSE, val |-> <<>>]

(***************************************************************************)
(* Values of the handler                                                   *)
(***************************************************************************)

\* req.body.university_goal: absent, or a string.
Goal(present, text) == [present |-> present, text |-> text]

Goals == {Goal(FALSE, <<>>), Goal(TRUE, <<>>), Goal(TRUE, <<"g">>)}

\* A validation that rejects only an absent goal.
IsAbsent(g) == ~g.present

\* !university_goal, server.js:89: undefined and '' are falsy.
IsFalsy(g) == ~g.present \/ g.text = <<>>

\* The code of a 'close' event: a number, or null after a signal.
Code(n) == [null |-> FALSE, n |-> n]

NullCode == [null |-> TRUE, n |-> 0]

\* code === 0, server.js:210
IsZero(code) == ~code.null /\ code.n = 0

\* A response body {success: false, error: <template with its arguments>}.
ErrorBody(template, args) ==
    [kind |-> "error", template |-> template, args |-> args, value |-> <<>>]

\* A response body that is the value parsed from the worker's stdout.
ResultBody(v) ==
    [kind |-> "result", template |-> "", args |-> <<>>, value |-> v]

\* e.message of the SyntaxError JSON.parse throws; its text is the engine's.
SyntaxErrorMessage == "SyntaxError"

\* path.join(backendPath, 'run_demo_cli.py'), server.js:112
scriptPath == "backend/run_demo_cli.py"

\* server.js:123-128
pythonPaths ==
    << "backend/venv/bin/python3", "backend/venv/bin/python", "python3", "python" >>

\* p.startsWith('/') || p.includes('venv'), server.js:132: the two joined
\* paths are absolute and hold 'venv', the two bare commands neither.
IsFilePath(p) == p \in {pythonPaths[1], pythonPaths[2]}

\* let pythonPath = null, server.js:130
null == "null"

Call(fn, arg) == [fn |-> fn, arg |-> arg]

\* The probe the loop makes for candidate p: fs.existsSync(p), or
\* execSync(`which ${p}`), server.js:132-147.
Probe(p) ==
    IF IsFilePath(p) THEN Call("existsSync", p) ELSE Call("execSync", p)

\* Whether the probe of candidate p succeeds: the file exists, or `which`
\* exits 0 (execSync does not throw).
ProbeSucceeds(f, p) == p \in f

\* The resolution loop from candidate i on, server.js:131-149:
\* [pythonPath, probes].
RECURSIVE ResolveFrom(_, _)
ResolveFrom(f, i) ==
    IF i > Len(pythonPaths) THEN [pythonPath |-> null, probes |-> <<>>]
    ELSE IF ProbeSucceeds(f, pythonPaths[i])
    THEN [pythonPath |-> pythonPaths[i], probes |-> <<Probe(pythonPaths[i])>>]
    ELSE LET r == ResolveFrom(f, i + 1)
         IN  [pythonPath |-> r.pythonPath,
              probes |-> <<Probe(pythonPaths[i])>> \o r.probes]

\* A loop that prefers the system commands to the bundled interpreters.
ResolvePythonSystemFirst(f) ==
    LET sys == ResolveFrom(f, 3)
    IN  IF sys.pythonPath # null THEN sys ELSE ResolveFrom(f, 1)

ResolvePython(f) == ResolveFrom(f, 1)

(***************************************************************************)
(* Result extraction, server.js:210-259                                    *)
(***************************************************************************)

\* line.startsWith('{') || line.startsWith('['), server.js:221
IsJsonShaped(line) == StartsWith(line, "{") \/ StartsWith(line, "[")

\* A scan from the first line to the last.
RECURSIVE ScanUp(_, _)
ScanUp(lines, i) ==
    IF i > Len(lines) THEN [jsonFound |-> FALSE, jsonLine |-> <<>>]
    ELSE LET line == Trim(lines[i])
         IN  IF IsJsonShaped(line) /\ JSONParse(line).ok
             THEN [jsonFound |-> TRUE, jsonLine |-> line]
             ELSE ScanUp(lines, i + 1)

ScanLinesForward(lines, i) == ScanUp(lines, 1)

\* The loop of server.js:219-231 from line i down to line 1.
RECURSIVE ScanLines(_, _)
ScanLines(lines, i) ==
    IF i < 1 THEN [jsonFound |-> FALSE, jsonLine |-> <<>>]
    ELSE LET line == Trim(lines[i])
         IN  IF IsJsonShaped(line) /\ JSONParse(line).ok
             THEN [jsonFound |-> TRUE, jsonLine |-> line]
             ELSE ScanLines(lines, i - 1)

\* A handler without the whole-buffer fallback.
TextToParseLineOnly(scan, resultData) == scan.jsonLine

\* The text the handler finally parses, server.js:233-240: the line found,
\* or the whole trimmed buffer.
TextToParse(scan, resultData) ==
    IF scan.jsonFound THEN scan.jsonLine ELSE Trim(resultData)

\* The try block of server.js:211-240: [ok, val]; ok is FALSE when the
\* final JSON.parse throws.
ExtractResult(resultData) ==
    LET lines == SplitLines(resultData)
        scan == ScanLines(lines, Len(lines))
    IN  JSONParse(TextToParse(scan, resultData))

\* A parse-failure body that reports the buffers whole.
ParseFailureBodyWhole(resultData, errorData) ==
    ErrorBody("Failed to parse result",
              << SyntaxErrorMessage, resultData, errorData >>)

\* The body sent when extraction throws, server.js:245-248.
ParseFailureBody(resultData, errorData) ==
    ErrorBody("Failed to parse result",
              << SyntaxErrorMessage,
                 Substring(resultData, 0, ParsePreviewLen),
                 Substring(errorData, 0, ParsePreviewLen) >>)

\* A close handler that tries extraction whatever the code.
CloseBodyIgnoringCode(code, resultData, errorData) ==
    LET r == ExtractResult(resultData)
    IN  IF r.ok THEN ResultBody(r.val)
        ELSE ErrorBody("Python script failed with code",
                       << code, Substring(errorData, 0, ErrorPreviewLen) >>)

\* A failure body that quotes the whole of stderr.
ScriptFailureBodyWhole(code, errorData) ==
    ErrorBody("Python script failed with code", << code, errorData >>)

\* The body sent on a code other than 0, server.js:252-258.
ScriptFailureBody(code, errorData) ==
    ErrorBody("Python script failed with code",
              << code, Substring(errorData, 0, ErrorPreviewLen) >>)

\* The data the 'close' handler passes to sendResponse, server.js:205-260.
CloseBody(code, resultData, errorData) ==
    IF IsZero(code)
    THEN LET r == ExtractResult(resultData)
         IN  IF r.ok THEN ResultBody(r.val)
             ELSE ParseFailureBody(resultData, errorData)
    ELSE ScriptFailureBody(code, errorData)

(***************************************************************************)
(* The environment: the file system, the worker's output, spawn's outcomes *)
(***************************************************************************)

\* Every name the handler probes.
FsNames == {scriptPath} \cup {pythonPaths[i] : i \in 1..Len(pythonPaths)}

\* ch repeated n times.
RECURSIVE Repeat(_, _)
Repeat(ch, n) ==
    IF n = 0 THEN <<>>
    ELSE IF n % 2 = 0 THEN LET h == Repeat(ch, n \div 2) IN h \o h
    ELSE <<ch>> \o Repeat(ch, n - 1)

\* The worker's result line, {"a":1} and its newline.
JsonLine == <<"{", "\"", "a", "\"", ":", "1", "}", "\n">>

\* A stdout chunk as long as the parse-failure preview, and a stderr chunk as
\* long as the script-failure preview: output longer than what is reported.
OutFill == Repeat("x", ParsePreviewLen)

ErrFill == Repeat("e", ErrorPreviewLen)

\* What one stdout 'data' event can carry.
OutChunks ==
    { <<"x", "\n">>, JsonLine, <<"[">>, <<"1">>, <<"]">>, <<"\n">>, <<" ">>, OutFill }

\* What one stderr 'data' event can carry.
ErrChunks == { <<"t">>, ErrFill }

\* The smaller output of the resolution specification.
FewOutChunks == { JsonLine, <<"x", "\n">> }

FewErrChunks == { <<"t">> }

\* What spawn() does: it throws (an errno it does not defer, such as E2BIG),
\* it finds no file descriptor left (EMFILE, ENFILE), it returns a child
\* whose start fails (ENOENT, EACCES: an 'error' event on the next tick,
\* then 'close' with the errno), or the worker starts.
SpawnOutcomes == {"throws", "exhausted", "fails", "starts"}

SpawnThrowMessage == "spawn E2BIG"

\* The errnos of a start that fails: no such file (also a bad interpreter
\* line), permission denied.
SpawnErrnos ==
    { [code |-> "ENOENT", errno |-> -2], [code |-> "EACCES", errno |-> -13] }

\* The errnos of a spawn that found no file descriptor left.
ExhaustedErrnos == { [code |-> "EMFILE", errno |-> -24] }

\* The error a child emits for errno e: Node names the file it was asked to
\* spawn, the pythonPath of server.js:163, in the message.
ErrnoException(path, e) ==
    [message |-> "spawn " \o path \o " " \o e.code, errno |-> e.errno]

\* The 'error' events of a child of `path` whose start fails.
SpawnErrors(path) == { ErrnoException(path, e) : e \in SpawnErrnos }

\* The 'error' events of a child of `path` spawned with no file descriptor
\* left.  spawn() then returns before it sets the child's stdio up: the
\* child has no stdout, and pythonProcess.stdout.on, server.js:182, throws
\* the TypeError below.
ExhaustedErrors(path) == { ErrnoException(path, e) : e \in ExhaustedErrnos }

NoStdoutMessage == "Cannot read properties of undefined (reading 'on')"

\* The codes a started worker's 'close' reports.
ExitCodes == {Code(0), Code(2), NullCode}

(***************************************************************************)
(* State                                                                   *)
(***************************************************************************)

VARIABLES
    fs,            \* the names that exist on disk or resolve through `which`
    pc,            \* per job: where its request and its child are
    goal,          \* per job: req.body.university_goal
    calls,         \* per job: the fs / child_process calls made, in order
    pythonPath,    \* per job: the interpreter chosen (null: none)
    resultData,    \* per job: accumulated stdout
    errorData,     \* per job: accumulated stderr
    nOut,          \* per job: stdout 'data' events so far
    nErr,          \* per job: stderr 'data' events so far
    responseSent,  \* per job: the flag of server.js:97
    sent,          \* per job: the bodies passed to res.json, in order
    errors,        \* per job: the 'error' events its child has emitted
    closes,        \* per job: the codes of the 'close' events handled
    socket,        \* per job: the request's connection, "open" or "destroyed"
    received,      \* per job: the bodies that reached the caller
    tracing,       \* whether the bytes the workers write are recorded
    stdoutBytes,   \* per job: the recorded bytes of the worker's stdout
    stderrBytes    \* per job: the recorded bytes of the worker's stderr

vars ==
    << fs, pc, goal, calls, pythonPath, resultData, errorData, nOut, nErr,
       responseSent, sent, errors, closes, socket, received, tracing,
       stdoutBytes, stderrBytes >>

(***************************************************************************)
(* The handler, server.js:82-269                                           *)
(***************************************************************************)

\* A guard that lets every completion signal respond.
ShouldSendAlways(flag) == TRUE

\* if (!responseSent), server.js:99
ShouldSend(flag) == ~flag

\* A body written to a connection reaches the caller while the connection
\* stands; written to a destroyed one it is dropped without an exception.
Reaches(sock) == sock = "open"

\* res.json(data), server.js:90 and :101
resJson(j, data) ==
    /\ sent' = [sent EXCEPT ![j] = Append(@, data)]
    /\ received' = [received EXCEPT ![j] =
                        IF Reaches(socket[j]) THEN Append(@, data) ELSE @]

\* A delivery guard shared by every request of the server.
sendResponseShared(j, data) ==
    IF \A k \in JobIds : ShouldSend(responseSent[k])
    THEN /\ responseSent' = [responseSent EXCEPT ![j] = TRUE]
         /\ resJson(j, data)
    ELSE UNCHANGED <<responseSent, sent, received>>

\* sendResponse(data), server.js:98-103
sendResponse(j, data) ==
    IF ShouldSend(responseSent[j])
    THEN /\ responseSent' = [responseSent EXCEPT ![j] = TRUE]
         /\ resJson(j, data)
    ELSE UNCHANGED <<responseSent, sent, received>>

\* A handler that takes the script for granted.
ScriptExistsUnchecked(f) == TRUE

\* fs.existsSync(scriptPath), server.js:115
ScriptExists(f) == scriptPath \in f

\* A handler that spawns whatever the loop found.
NoPythonUnchecked(path) == FALSE

\* if (!pythonPath), server.js:151
NoPython(path) == path = null

\* server.js:90-93
GoalRequiredBody == ErrorBody("University goal is required", <<>>)

\* server.js:116-119
ScriptNotFoundBody == ErrorBody("Python script not found at", <<scriptPath>>)

\* server.js:152-155
PythonNotFoundBody ==
    ErrorBody("Python not found. Please ensure Python 3 is installed.", <<>>)

\* The body of the 'error' handler, server.js:199-202
SpawnFailureBody(error) ==
    ErrorBody("Failed to start Python process", <<error.message>>)

\* The body of the catch block, server.js:264-267
CaughtBody(message) == ErrorBody("${error.message}", <<message>>)

\* A handler that spawns again when the first spawn did not start a worker.
SpawnCallsRetried(path, outcome) ==
    IF outcome = "starts"
    THEN <<Call("spawn", path)>>
    ELSE <<Call("spawn", path), Call("spawn", path)>>

\* The spawn calls of one run of the handler: the one at server.js:163,
\* whatever comes of it.
SpawnCalls(path, outcome) == <<Call("spawn", path)>>

Returned(cs, path, body, direct) ==
    [calls |-> cs, pythonPath |-> path, reply |-> <<body>>, direct |-> direct,
     pc |-> "returned"]

\* A handler that answers as soon as the worker is spawned.
SpawnedAndAnswered(cs, path, next) ==
    [calls |-> cs, pythonPath |-> path,
     reply |-> <<ErrorBody("started", <<>>)>>, direct |-> FALSE, pc |-> next]

\* The handler has returned from its catch block with the child's 'error'
\* event still to come and no listener attached for it (server.js:197 was
\* not reached).
Unlistened(cs, path, body) ==
    [calls |-> cs, pythonPath |-> path, reply |-> <<body>>, direct |-> FALSE,
     pc |-> "unhandled"]

Spawned(cs, path, next) ==
    [calls |-> cs, pythonPath |-> path, reply |-> <<>>, direct |-> FALSE,
     pc |-> next]

\* A handler that resolves the interpreter before it checks the script.
RunSyncResolveFirst(g, f, outcome) ==
    IF IsFalsy(g)
    THEN Returned(<<>>, null, GoalRequiredBody, TRUE)
    ELSE LET r == ResolvePython(f)
             check == r.probes \o <<Call("existsSync", scriptPath)>>
             spawned == check \o SpawnCalls(r.pythonPath, outcome)
         IN  IF NoPython(r.pythonPath)
             THEN Returned(r.probes, null, PythonNotFoundBody, FALSE)
             ELSE IF ~ScriptExists(f)
             THEN Returned(check, null, ScriptNotFoundBody, FALSE)
             ELSE IF outcome = "throws"
             THEN Returned(spawned, r.pythonPath,
                           CaughtBody(SpawnThrowMessage), FALSE)
             ELSE IF outcome = "exhausted"
             THEN Unlistened(spawned, r.pythonPath,
                             CaughtBody(NoStdoutMessage))
             ELSE IF outcome = "fails"
             THEN Spawned(spawned, r.pythonPath, "failing")
             ELSE Spawned(spawned, r.pythonPath, "running")

\* The synchronous run of the handler for goal g on file system f, spawn
\* doing `outcome`: the calls made, the interpreter chosen, the body replied
\* (none when the child was spawned; direct: through res.json and not
\* sendResponse, server.js:90) and where the job is left.
RunSync(g, f, outcome) ==
    IF IsFalsy(g)
    THEN Returned(<<>>, null, GoalRequiredBody, TRUE)
    ELSE LET check == <<Call("existsSync", scriptPath)>>
         IN  IF ~ScriptExists(f)
             THEN Returned(check, null, ScriptNotFoundBody, FALSE)
             ELSE LET r == ResolvePython(f)
                      probed == check \o r.probes
                      spawned == probed \o SpawnCalls(r.pythonPath, outcome)
                  IN  IF NoPython(r.pythonPath)
                      THEN Returned(probed, null, PythonNotFoundBody, FALSE)
                      ELSE IF outcome = "throws"
                      THEN Returned(spawned, r.pythonPath,
                                    CaughtBody(SpawnThrowMessage), FALSE)
                      ELSE IF outcome = "exhausted"
                      THEN Unlistened(spawned, r.pythonPath,
                                      CaughtBody(NoStdoutMessage))
                      ELSE IF outcome = "fails"
                      THEN Spawned(spawned, r.pythonPath, "failing")
                      ELSE Spawned(spawned, r.pythonPath, "running")

\* app.post('/api/run-demo'), server.js:82-269: the request of job j arrives
\* and the handler runs to its return.
RunDemo(j, g, outcome) ==
    /\ pc[j] = "idle"
    /\ LET h == RunSync(g, fs, outcome)
       IN  /\ goal' = [goal EXCEPT ![j] = g]
           /\ calls' = [calls EXCEPT ![j] = h.calls]
           /\ pythonPath' = [pythonPath EXCEPT ![j] = h.pythonPath]
           /\ pc' = [pc EXCEPT ![j] = h.pc]
           /\ IF h.reply = <<>>
              THEN UNCHANGED <<responseSent, sent, received>>
              ELSE IF h.direct
              THEN /\ resJson(j, h.reply[1])
                   /\ UNCHANGED responseSent
              ELSE sendResponse(j, h.reply[1])
    /\ UNCHANGED <<fs, tracing, resultData, errorData, nOut, nErr, errors, closes,
                   socket, stdoutBytes, stderrBytes>>

(***************************************************************************)
(* data.toString(), server.js:183 and :190.  A chunk is a Buffer of bytes   *)
(* that Node decodes as UTF-8, each chunk on its own.  A byte of the model  *)
(* is an ASCII character, which decodes to itself, or one of the two bytes  *)
(* C3 A9 that encode U+00E9; a byte that does not complete a sequence       *)
(* inside its chunk decodes to the replacement character U+FFFD.            *)
(***************************************************************************)

LeadByte == "C3"

ContinuationByte == "A9"

DecodedChar == "U+00E9"

ReplacementChar == "U+FFFD"

\* What a continuation byte leaves behind once its lead byte has decoded it.
Consumed == ""

IsDecoded(c) == c # Consumed

\* The character the decoder yields at byte i of the chunk.
DecodeAt(data, i) ==
    IF data[i] = LeadByte
    THEN IF i < Len(data) /\ data[i + 1] = ContinuationByte
         THEN DecodedChar
         ELSE ReplacementChar
    ELSE IF data[i] = ContinuationByte
    THEN IF i > 1 /\ data[i - 1] = LeadByte
         THEN Consumed
         ELSE ReplacementChar
    ELSE data[i]

\* data.toString()
toString(data) ==
    SelectSeq([i \in 1..Len(data) |-> DecodeAt(data, i)], IsDecoded)

\* A stdout handler that sends what it has as soon as a chunk arrives.
StdoutDataEager(j, data) ==
    /\ pc[j] = "running"
    /\ nOut[j] < MaxOutChunks
    /\ resultData' = [resultData EXCEPT ![j] = @ \o toString(data)]
    /\ stdoutBytes' = [stdoutBytes EXCEPT ![j] =
                           IF tracing THEN @ \o data ELSE @]
    /\ nOut' = [nOut EXCEPT ![j] = @ + 1]
    /\ sendResponse(j, CloseBody(Code(0), resultData[j] \o toString(data),
                                 errorData[j]))
    /\ UNCHANGED <<fs, tracing, pc, goal, calls, pythonPath, errorData, nErr, errors,
                   closes, socket, stderrBytes>>

\* pythonProcess.stdout.on('data'), server.js:182-186
StdoutData(j, data) ==
    /\ pc[j] = "running"
    /\ nOut[j] < MaxOutChunks
    /\ resultData' = [resultData EXCEPT ![j] = @ \o toString(data)]
    /\ stdoutBytes' = [stdoutBytes EXCEPT ![j] =
                           IF tracing THEN @ \o data ELSE @]
    /\ nOut' = [nOut EXCEPT ![j] = @ + 1]
    /\ UNCHANGED <<fs, tracing, pc, goal, calls, pythonPath, errorData, nErr,
                   responseSent, sent, errors, closes,
                   socket, received, stderrBytes>>

\* A stderr handler that appends to the buffer of stdout.
StderrDataMixed(j, data) ==
    /\ pc[j] = "running"
    /\ nErr[j] < MaxErrChunks
    /\ resultData' = [resultData EXCEPT ![j] = @ \o toString(data)]
    /\ stderrBytes' = [stderrBytes EXCEPT ![j] =
                           IF tracing THEN @ \o data ELSE @]
    /\ nErr' = [nErr EXCEPT ![j] = @ + 1]
    /\ UNCHANGED <<fs, tracing, pc, goal, calls, pythonPath, errorData, nOut,
                   responseSent, sent, errors, closes, socket, received,
                   stdoutBytes>>

\* pythonProcess.stderr.on('data'), server.js:188-194
StderrData(j, data) ==
    /\ pc[j] = "running"
    /\ nErr[j] < MaxErrChunks
    /\ errorData' = [errorData EXCEPT ![j] = @ \o toString(data)]
    /\ stderrBytes' = [stderrBytes EXCEPT ![j] =
                           IF tracing THEN @ \o data ELSE @]
    /\ nErr' = [nErr EXCEPT ![j] = @ + 1]
    /\ UNCHANGED <<fs, tracing, pc, goal, calls, pythonPath, resultData, nOut,
                   responseSent, sent, errors, closes,
                   socket, received, stdoutBytes>>

\* pythonProcess.on('error'), server.js:197-203: the child could not start.
ErrorEvent(j, error) ==
    /\ pc[j] = "failing"
    /\ error \in SpawnErrors(pythonPath[j])
    /\ errors' = [errors EXCEPT ![j] = Append(@, error)]
    /\ sendResponse(j, SpawnFailureBody(error))
    /\ pc' = [pc EXCEPT ![j] = "errored"]
    /\ UNCHANGED <<fs, tracing, goal, calls, pythonPath, resultData, errorData, nOut,
                   nErr, closes, socket, stdoutBytes,
                   stderrBytes>>

\* The code 'close' reports: any exit of a started worker; the errno of the
\* 'error' event when the start failed.
CanClose(j, code) ==
    \/ pc[j] = "running" /\ code \in ExitCodes
    \/ pc[j] = "errored" /\ code = Code(errors[j][Len(errors[j])].errno)

\* pythonProcess.on('close'), server.js:205-260
CloseEvent(j, code) ==
    /\ CanClose(j, code)
    /\ closes' = [closes EXCEPT ![j] = Append(@, code)]
    /\ sendResponse(j, CloseBody(code, resultData[j], errorData[j]))
    /\ pc' = [pc EXCEPT ![j] = "closed"]
    /\ UNCHANGED <<fs, tracing, goal, calls, pythonPath, resultData, errorData, nOut,
                   nErr, errors, socket, stdoutBytes,
                   stderrBytes>>

CloseCodes == ExitCodes \cup {Code(e.errno) : e \in SpawnErrnos}

\* The child of job j may be running: it was started and its 'close' was not
\* handled yet (server.js:163, :205).
ChildRunning(j) == pc[j] \in {"running", "orphaned"}

\* The stdout and stderr pipes of job j's child are not known closed: spawn
\* has returned a child (server.js:163) and its 'close', which follows the
\* closing of the stdio streams, was not handled yet (server.js:205).
StreamsOpen(j) == pc[j] \in {"running", "failing", "errored"}

\* Where the end of the Node process leaves a job that was at `at`: a
\* request not yet arrived is refused, a running worker is orphaned, any
\* other job in flight is lost, a finished job stays finished.
AfterExit(at) ==
    CASE at = "idle" -> "refused"
      [] at = "running" -> "orphaned"
      [] at \in {"failing", "errored", "unhandled"} -> "lost"
      [] OTHER -> at

\* The 'error' event of a child whose handler returned before attaching the
\* listener of server.js:197: the event is unhandled, Node throws it and the
\* server process exits with status 1.  Every connection ends with the
\* process; no handler of any job runs again.
UnhandledErrorEvent(j, error) ==
    /\ pc[j] = "unhandled"
    /\ error \in ExhaustedErrors(pythonPath[j])
    /\ errors' = [errors EXCEPT ![j] = Append(@, error)]
    /\ pc' = [k \in JobIds |-> IF k = j THEN "crashed" ELSE AfterExit(pc[k])]
    /\ socket' = [k \in JobIds |->
                     IF pc[k] = "off" THEN socket[k] ELSE "destroyed"]
    /\ UNCHANGED <<fs, tracing, goal, calls, pythonPath, resultData, errorData, nOut,
                   nErr, responseSent, sent, closes, received, stdoutBytes,
                   stderrBytes>>

\* req.setTimeout(30 * 60 * 1000) and res.setTimeout(30 * 60 * 1000),
\* server.js:84-85, with no 'timeout' listener on the request, the response
\* or the server: a connection idle for thirty minutes is destroyed.  The
\* connection is idle while the worker runs and after the response; the
\* handler is not told, the child is not signalled and nothing is written.
TimeoutEvent(j) ==
    /\ pc[j] \in {"running", "closed", "returned"}
    /\ socket[j] = "open"
    /\ socket' = [socket EXCEPT ![j] = "destroyed"]
    /\ UNCHANGED <<fs, tracing, pc, goal, calls, pythonPath, resultData, errorData,
                   nOut, nErr, responseSent, sent, errors,
                   closes, received, stdoutBytes,
                   stderrBytes>>

(***************************************************************************)
(* Specifications                                                          *)
(***************************************************************************)

\* The state before any request, with the jobs of `active` about to arrive.
InitJobs(active) ==
    /\ pc = [j \in JobIds |-> IF j \in active THEN "idle" ELSE "off"]
    /\ goal = [j \in JobIds |-> Goal(FALSE, <<>>)]
    /\ calls = [j \in JobIds |-> <<>>]
    /\ pythonPath = [j \in JobIds |-> null]
    /\ resultData = [j \in JobIds |-> <<>>]
    /\ errorData = [j \in JobIds |-> <<>>]
    /\ nOut = [j \in JobIds |-> 0]
    /\ nErr = [j \in JobIds |-> 0]
    /\ responseSent = [j \in JobIds |-> FALSE]
    /\ sent = [j \in JobIds |-> <<>>]
    /\ errors = [j \in JobIds |-> <<>>]
    /\ closes = [j \in JobIds |-> <<>>]
    /\ socket = [j \in JobIds |-> "open"]
    /\ received = [j \in JobIds |-> <<>>]
    /\ stdoutBytes = [j \in JobIds |-> <<>>]
    /\ stderrBytes = [j \in JobIds |-> <<>>]

\* The image src/Dockerfile builds: the script, the interpreters of the
\* venv of Dockerfile:13-16 and the system python3 of Dockerfile:6-8.
DockerFs == FsNames \ {"python"}

\* Three deployments: the Docker image, the worker script missing, no
\* interpreter at all.
FsSamples == { DockerFs, FsNames \ {scriptPath}, {scriptPath} }

\* One request, on a sampled file system, with the full worker output.
Init ==
    /\ fs \in FsSamples
    /\ InitJobs({1})
    /\ tracing = FALSE

Next ==
    \E j \in JobIds :
        \/ \E g \in Goals, outcome \in SpawnOutcomes : RunDemo(j, g, outcome)
        \/ \E data \in OutChunks : StdoutData(j, data)
        \/ \E data \in ErrChunks : StderrData(j, data)
        \/ \E error \in SpawnErrors(pythonPath[j]) : ErrorEvent(j, error)
        \/ \E code \in CloseCodes : CloseEvent(j, code)
        \/ \E error \in ExhaustedErrors(pythonPath[j]) :
              UnhandledErrorEvent(j, error)

Spec == Init /\ [][Next]_vars

\* One request, on every file system, with a small worker output.
InitResolve ==
    /\ fs \in SUBSET FsNames
    /\ InitJobs({1})
    /\ tracing = FALSE

NextResolve ==
    \E j \in JobIds :
        \/ \E g \in Goals, outcome \in SpawnOutcomes : RunDemo(j, g, outcome)
        \/ \E data \in FewOutChunks : StdoutData(j, data)
        \/ \E data \in FewErrChunks : StderrData(j, data)
        \/ \E error \in SpawnErrors(pythonPath[j]) : ErrorEvent(j, error)
        \/ \E code \in CloseCodes : CloseEvent(j, code)
        \/ \E error \in ExhaustedErrors(pythonPath[j]) :
              UnhandledErrorEvent(j, error)

SpecResolve == InitResolve /\ [][NextResolve]_vars

\* Spec and SpecResolve are the runs in which no connection stays idle for
\* thirty minutes.  SpecTimeout adds the runs in which one does: one request,
\* on a sampled file system, with a small worker output.
NextTimeout ==
    \E j \in JobIds :
        \/ \E g \in Goals, outcome \in SpawnOutcomes : RunDemo(j, g, outcome)
        \/ \E data \in FewOutChunks : StdoutData(j, data)
        \/ \E data \in FewErrChunks : StderrData(j, data)
        \/ \E error \in SpawnErrors(pythonPath[j]) : ErrorEvent(j, error)
        \/ \E code \in CloseCodes : CloseEvent(j, code)
        \/ \E error \in ExhaustedErrors(pythonPath[j]) :
              UnhandledErrorEvent(j, error)
        \/ TimeoutEvent(j)

SpecTimeout == Init /\ [][NextTimeout]_vars

\* Two requests in flight at once, their events interleaved in any order, on
\* the Docker image, with a small worker output.
InitConcurrent ==
    /\ fs = DockerFs
    /\ InitJobs(JobIds)
    /\ tracing = FALSE

SpecConcurrent == InitConcurrent /\ [][NextResolve]_vars

\* The bytes of the line {"a":"e-acute"} in one chunk, and in the two chunks
\* of a pipe read that ends between the two bytes of the character.
SplitLineWhole ==
    <<"{", "\"", "a", "\"", ":", "\"", LeadByte, ContinuationByte, "\"", "}">>

SplitLineHead == SubSeq(SplitLineWhole, 1, 7)

SplitLineTail == SubSeq(SplitLineWhole, 8, Len(SplitLineWhole))

SplitOutChunks == { SplitLineWhole, SplitLineHead, SplitLineTail }

\* Two runs side by side, the bytes their workers write recorded.
InitChunks ==
    /\ fs = DockerFs
    /\ InitJobs(JobIds)
    /\ tracing = TRUE

\* The workers write a line with a two-byte character that the pipe may
\* deliver whole or split.
NextChunks ==
    \E j \in JobIds :
        \/ \E g \in Goals, outcome \in SpawnOutcomes : RunDemo(j, g, outcome)
        \/ \E data \in SplitOutChunks : StdoutData(j, data)
        \/ \E data \in FewErrChunks : StderrData(j, data)
        \/ \E error \in SpawnErrors(pythonPath[j]) : ErrorEvent(j, error)
        \/ \E code \in CloseCodes : CloseEvent(j, code)
        \/ \E error \in ExhaustedErrors(pythonPath[j]) :
              UnhandledErrorEvent(j, error)

SpecChunks == InitChunks /\ [][NextChunks]_vars

(***************************************************************************)
(* Vocabulary of the properties                                            *)
(***************************************************************************)

\* The request of job j has been handled.
Arrived(j) == pc[j] \notin {"idle", "off", "refused"}

\* The goal of job j passed validation.
HasGoal(j) == Arrived(j) /\ goal[j].present /\ goal[j].text # <<>>

\* The worker of job j started, and its 'close' reported `code`.
Exited(j, code) == errors[j] = <<>> /\ closes[j] = <<code>>

\* The calls of job j that spawn a child.
Spawns(j) == {k \in 1..Len(calls[j]) : calls[j][k].fn = "spawn"}

\* The lines of `text` whose trimmed text starts with '{' or '[' and is JSON.
ParsingLines(text) ==
    LET lines == SplitLines(text)
    IN  {i \in 1..Len(lines) :
            LET l == Trim(lines[i])
            IN  l # <<>> /\ l[1] \in {"{", "["} /\ JSONParse(l).ok}

\* The value of the last of the parsing lines of `text`.
LastParsingValue(text) ==
    LET lines == SplitLines(text)
        cand == ParsingLines(text)
        last == CHOOSE i \in cand : \A m \in cand : m <= i
    IN  JSONParse(Trim(lines[last])).val

\* Neither a line of `text` nor its whole trimmed text is JSON.
NoResultIn(text) == ParsingLines(text) = {} /\ ~JSONParse(Trim(text)).ok

\* The first n characters of `text`.
Prefix(text, n) == SubSeq(text, 1, IF Len(text) < n THEN Len(text) ELSE n)

\* The candidates that resolve on the file system.
Resolvable == {i \in 1..Len(pythonPaths) : pythonPaths[i] \in fs}

(***************************************************************************)
(* Properties                                                              *)
(***************************************************************************)

\* C1: a job's response is sent at most once; once a body has been sent, no
\* later 'error' or 'close' event and no later step changes what was sent.
C1_DeliveredOnce ==
    [][\A j \in JobIds :
          /\ Len(sent'[j]) <= 1
          /\ sent[j] # <<>> => sent'[j] = sent[j]]_vars

\* An 'error' event and then a 'close' event were handled and one body was sent.
C1_ErrorThenClose ==
    errors[1] # <<>> /\ closes[1] # <<>> /\ Len(sent[1]) = 1

\* C2: a request whose goal is absent or empty is answered with
\* 'University goal is required' and returns at once: no script check, no
\* interpreter probe, no spawn.
C2_EmptyGoalRejected ==
    \A j \in JobIds :
        (Arrived(j) /\ (~goal[j].present \/ goal[j].text = <<>>))
            => /\ sent[j] = <<ErrorBody("University goal is required", <<>>)>>
               /\ calls[j] = <<>>
               /\ pc[j] = "returned"

\* A request with the empty string as its goal was handled, on a file system
\* where the script and an interpreter exist.
C2_EmptyStringHandled ==
    /\ Arrived(1)
    /\ goal[1] = Goal(TRUE, <<>>)
    /\ scriptPath \in fs
    /\ Resolvable # {}

\* C3: on exit code 0, when some line of stdout is JSON-shaped and parses, the
\* body sent is the value of the last such line: later lines that are not
\* JSON-shaped or do not parse are passed over, earlier lines are not preferred.
C3_LastParsingLineWins ==
    \A j \in JobIds :
        (Exited(j, Code(0)) /\ ParsingLines(resultData[j]) # {})
            => sent[j] = <<ResultBody(LastParsingValue(resultData[j]))>>

\* stdout 'x', '{"a":1}', 'x' and exit code 0: the body is {a: 1}.
C3_SpecExample ==
    /\ resultData[1] = <<"x", "\n">> \o JsonLine \o <<"x", "\n">>
    /\ Exited(1, Code(0))
    /\ sent[1] = <<ResultBody(<<"obj", (<<"a">> :> <<"num", 1>>)>>)>>

\* C4: on exit code 0 the whole trimmed stdout decides the body exactly when
\* no line parsed: then its value is sent if it parses and a parse failure if
\* it does not; when a line parsed, the value of the last line that parsed is
\* sent, whether the whole buffer parses (to whatever value) or not.
C4_WholeBufferFallback ==
    \A j \in JobIds :
        Exited(j, Code(0))
            => LET text == resultData[j]
                   whole == JSONParse(Trim(text))
               IN  /\ Len(sent[j]) = 1
                   /\ (ParsingLines(text) = {} /\ whole.ok)
                        => sent[j] = <<ResultBody(whole.val)>>
                   /\ (ParsingLines(text) = {} /\ ~whole.ok)
                        => sent[j][1].template = "Failed to parse result"
                   /\ ParsingLines(text) # {}
                        => sent[j] = <<ResultBody(LastParsingValue(text))>>

\* stdout '[', ']' on two lines and exit code 0: no line parses, the whole
\* buffer does, and the body is the empty array.
C4_TwoLineArray ==
    /\ resultData[1] = <<"[", "\n", "]">>
    /\ Exited(1, Code(0))
    /\ ParsingLines(resultData[1]) = {}
    /\ sent[1] = <<ResultBody(<<"arr", <<>>>>)>>

\* The worker output a parse-failure body quotes, after the parser's message.
QuotedOutput(body) == body.args[2] \o body.args[3]

\* C5 as stated: on exit code 0 with nothing to extract, the failure's
\* diagnostic is the first 500 characters of stdout.
C5_DiagnosticIsStdoutPrefix ==
    \A j \in JobIds :
        (Exited(j, Code(0)) /\ NoResultIn(resultData[j]))
            => /\ Len(sent[j]) = 1
               /\ sent[j][1].template = "Failed to parse result"
               /\ QuotedOutput(sent[j][1]) = Prefix(resultData[j], ParsePreviewLen)

\* C5, amended: on exit code 0 with nothing to extract, the body sent is the
\* parse failure that quotes the parser's message, the first 500 characters
\* of stdout and the first 500 characters of stderr; it is never a result.
C5_ParseFailureQuotesBothStreams ==
    \A j \in JobIds :
        (Exited(j, Code(0)) /\ NoResultIn(resultData[j]))
            => sent[j] = << ErrorBody("Failed to parse result",
                                      << SyntaxErrorMessage,
                                         Prefix(resultData[j], ParsePreviewLen),
                                         Prefix(errorData[j], ParsePreviewLen) >>) >>

\* A parse failure on a stdout longer than 500 characters, with stderr output.
C5_LongOutputParseFailure ==
    /\ Exited(1, Code(0))
    /\ NoResultIn(resultData[1])
    /\ Len(resultData[1]) > ParsePreviewLen
    /\ errorData[1] # <<>>
    /\ sent[1] # <<>>

\* C6: when a started worker's 'close' reports a code other than 0 (null
\* included), the body sent is the script failure carrying that code and the
\* first 2000 characters of stderr, whatever stdout holds.
C6_NonzeroExitFails ==
    \A j \in JobIds : \A code \in ExitCodes \ {Code(0)} :
        Exited(j, code)
            => sent[j] = << ErrorBody("Python script failed with code",
                                      << code,
                                         Prefix(errorData[j], ErrorPreviewLen) >>) >>

\* A worker killed by a signal (code null) whose stdout holds a parsing JSON
\* line, and whose stderr is longer than 2000 characters.
C6_SignalKillWithJsonLine ==
    /\ Exited(1, NullCode)
    /\ ParsingLines(resultData[1]) # {}
    /\ Len(errorData[1]) > ErrorPreviewLen
    /\ sent[1] # <<>>

\* C7: once the child's 'error' event has fired, the body sent is the start
\* failure carrying that error's message, and stays so after the 'close'
\* that follows; when spawn throws, the body sent carries the thrown error's
\* message.
C7_SpawnFailureReported ==
    \A j \in JobIds :
        /\ errors[j] # <<>>
             => sent[j] = << ErrorBody("Failed to start Python process",
                                       <<errors[j][1].message>>) >>
        /\ (pc[j] = "returned" /\ Spawns(j) # {})
             => sent[j] = << ErrorBody("${error.message}", <<SpawnThrowMessage>>) >>

\* C8: when the script exists and some candidate resolves, the interpreter
\* chosen is the lowest-indexed candidate that resolves, and the probes made
\* are those of the candidates up to it, in order, each once; no candidate
\* after it is probed.
C8_FirstResolvableChosen ==
    \A j \in JobIds :
        (HasGoal(j) /\ scriptPath \in fs /\ Resolvable # {})
            => LET k == CHOOSE i \in Resolvable : \A m \in Resolvable : i <= m
                   probes == [i \in 1..k |->
                                 Call(IF i <= 2 THEN "existsSync" ELSE "execSync",
                                      pythonPaths[i])]
               IN  /\ pythonPath[j] = pythonPaths[k]
                   /\ calls[j] = <<Call("existsSync", scriptPath)>> \o probes
                                    \o <<Call("spawn", pythonPaths[k])>>

\* Only the two system commands resolve, and python3 was chosen.
C8_SystemPythonsOnly ==
    /\ HasGoal(1)
    /\ fs = {scriptPath, "python3", "python"}
    /\ pythonPath[1] = "python3"

\* C9: when the script exists and no candidate resolves, the body sent is
\* 'Python not found. Please ensure Python 3 is installed.', the handler has
\* returned and no child was spawned.
C9_NoInterpreterNoSpawn ==
    \A j \in JobIds :
        (HasGoal(j) /\ scriptPath \in fs /\ Resolvable = {})
            => /\ sent[j] = << ErrorBody(
                     "Python not found. Please ensure Python 3 is installed.",
                     <<>>) >>
               /\ pc[j] = "returned"
               /\ Spawns(j) = {}
               /\ Len(calls[j]) = 1 + Len(pythonPaths)

\* A valid request was handled where the script exists and nothing resolves.
C9_NothingResolves ==
    HasGoal(1) /\ fs = {scriptPath}

\* C10: when the worker script does not exist, the body sent is 'Python
\* script not found at' with the script's path, the handler has returned and
\* no child was spawned; and every spawn is preceded by the existence check
\* of the script.
C10_ScriptCheckedBeforeSpawn ==
    \A j \in JobIds :
        /\ (HasGoal(j) /\ scriptPath \notin fs)
             => /\ sent[j] = <<ErrorBody("Python script not found at", <<scriptPath>>)>>
                /\ pc[j] = "returned"
                /\ Spawns(j) = {}
        /\ \A k \in Spawns(j) :
               \E i \in 1..(k - 1) : calls[j][i] = Call("existsSync", scriptPath)

\* A valid request was handled where the script is missing and every
\* interpreter resolves.
C10_ScriptMissing ==
    HasGoal(1) /\ fs = FsNames \ {scriptPath}

\* C11: one request spawns the worker at most once: the calls of a request
\* hold at most one spawn, and once the worker was spawned no later step,
\* whatever the outcome of the run, adds a call to the request.
C11_SpawnedAtMostOnce ==
    [][\A j \in JobIds :
          /\ Cardinality({k \in 1..Len(calls'[j]) : calls'[j][k].fn = "spawn"})
                 <= 1
          /\ Spawns(j) # {} => calls'[j] = calls[j]]_vars

\* A spawn that failed to start was reported and closed, and the request made
\* one spawn.
C11_FailedStartNotRetried ==
    /\ pc[1] = "closed"
    /\ errors[1] # <<>>
    /\ Cardinality(Spawns(1)) = 1

\* C12: every request receives a result: once the handler has returned
\* without a worker, or the worker's completion signal was handled (it exited
\* or failed to start), one body has reached the caller.
C12_EveryRequestAnswered ==
    \A j \in JobIds :
        pc[j] \in {"returned", "closed"} => Len(received[j]) = 1

\* C13: no timer of the runner abandons a job: a started worker that has
\* exited, after whatever time, has had the body of its completion delivered
\* to the caller.
C13_NoTimerAbandonsJob ==
    \A j \in JobIds :
        (errors[j] = <<>> /\ closes[j] # <<>>)
            => received[j] =
                   <<CloseBody(closes[j][1], resultData[j], errorData[j])>>

\* C14: a timeout that fired has terminated the worker if it was running and
\* has left the caller with a result (the timeout failure, or the result
\* delivered before the timer fired).
C14_TimeoutTerminatesWorker ==
    \A j \in JobIds :
        socket[j] = "destroyed"
            => /\ pc[j] # "running"
               /\ received[j] # <<>>

\* C15 as stated: whenever a body has been sent for a job, its child is not
\* running and its stdout and stderr are closed.
C15_DeliveredMeansReleased ==
    \A j \in JobIds :
        sent[j] # <<>> => ~ChildRunning(j) /\ ~StreamsOpen(j)

\* C15, amended: whenever a body has been sent for a job, its child is not
\* running, and its stdout and stderr are closed except between the 'error'
\* event of a failed start, which sends the failure, and the 'close' event
\* that follows it.
C15_DeliveredMeansNotRunning ==
    \A j \in JobIds :
        sent[j] # <<>>
            => /\ ~ChildRunning(j)
               /\ StreamsOpen(j) => pc[j] = "errored"

\* The failure of a start was sent and the 'close' of the child is pending.
C15_ReportedBeforeClose ==
    /\ pc[1] = "errored"
    /\ Len(sent[1]) = 1
    /\ sent[1][1].template = "Failed to start Python process"

\* C16: while a started worker has not completed nothing is sent: a step in
\* which a chunk arrives only appends it and sends nothing, no chunk arrives
\* once the completion signal was handled, and the body sent at the
\* completion of a started worker is computed from the buffers holding every
\* chunk that arrived.
C16_NothingSentBeforeCompletion ==
    [][\A j \in JobIds :
          /\ (resultData'[j] # resultData[j] \/ errorData'[j] # errorData[j])
               => /\ sent[j] = <<>> /\ sent'[j] = <<>>
                  /\ responseSent'[j] = responseSent[j]
                  /\ closes'[j] = <<>>
          /\ pc'[j] = "running" => sent'[j] = <<>>
          /\ closes[j] # <<>>
               => resultData'[j] = resultData[j] /\ errorData'[j] = errorData[j]
          /\ (pc[j] = "running" /\ closes'[j] # <<>>)
               => sent'[j] = <<CloseBody(closes'[j][1], resultData'[j],
                                         errorData'[j])>>]_vars

\* A worker wrote three stdout chunks and a stderr chunk and completed with a
\* result.
C16_ChunksThenResult ==
    /\ nOut[1] = 3
    /\ nErr[1] >= 1
    /\ Exited(1, Code(0))
    /\ sent[1][1].kind = "result"

\* text is the beginning of buffer.
IsPrefixOf(text, buffer) ==
    /\ Len(text) <= Len(buffer)
    /\ text = SubSeq(buffer, 1, Len(text))

\* C17: the stderr excerpt of a failure on a code other than 0 holds at most
\* 2000 characters and the stdout excerpt of a parse failure at most 500, and
\* each is the beginning of its buffer, whatever the worker wrote.
C17_DiagnosticsBounded ==
    \A j \in JobIds :
        \A k \in 1..Len(sent[j]) :
            LET body == sent[j][k]
            IN  /\ body.template = "Python script failed with code"
                     => /\ Len(body.args[2]) <= 2000
                        /\ IsPrefixOf(body.args[2], errorData[j])
                /\ body.template = "Failed to parse result"
                     => /\ Len(body.args[2]) <= 500
                        /\ IsPrefixOf(body.args[2], resultData[j])

\* A worker wrote more than 2000 characters to stderr and exited with a code
\* other than 0.
C17_LongStderrFailure ==
    /\ Len(errorData[1]) > 2000
    /\ Exited(1, Code(2))
    /\ sent[1][1].template = "Python script failed with code"
    /\ Len(sent[1][1].args[2]) = 2000

\* Everything the handler keeps for job j.
JobVars(j) ==
    << goal[j], calls[j], pythonPath[j], resultData[j], errorData[j],
       nOut[j], nErr[j], responseSent[j], sent[j], errors[j], closes[j],
       received[j], stdoutBytes[j], stderrBytes[j] >>

\* C18: two jobs in flight share no state of the handler: a step that
\* changes what the handler keeps for one job (its goal, its calls, its
\* interpreter, its buffers, its delivery guard, the bodies it sent, the
\* events of its child) leaves everything kept for the other as it was; the
\* completion of a started worker sends the body computed from that job's
\* own stdout, stderr and exit code, and the failure of a start its own
\* failure, whether or not the other job has responded.
C18_JobsIndependent ==
    [][\A j \in JobIds :
          /\ JobVars(j)' # JobVars(j)
               => \A k \in JobIds \ {j} : JobVars(k)' = JobVars(k)
          /\ (pc[j] = "running" /\ closes'[j] # <<>>)
               => sent'[j] = <<CloseBody(closes'[j][1], resultData[j],
                                         errorData[j])>>
          /\ (pc[j] = "failing" /\ errors'[j] # <<>>)
               => sent'[j] = <<SpawnFailureBody(errors'[j][1])>>]_vars

\* Two workers ran at once: the first exited with a result, the second with a
\* code other than 0, each answered from its own output.
C18_TwoJobsTwoOutcomes ==
    /\ Exited(1, Code(0))
    /\ Exited(2, Code(2))
    /\ sent[1][1].kind = "result"
    /\ sent[2][1].template = "Python script failed with code"
    /\ resultData[1] # resultData[2]
    /\ errorData[2] # errorData[1]

\* C19: every result sent as a success is a JSON object or a JSON array,
\* never a bare number, string, boolean or null, the whole-buffer fallback
\* included.
C19_SuccessIsObjectOrArray ==
    \A j \in JobIds :
        \A k \in 1..Len(sent[j]) :
            sent[j][k].kind = "result"
                => sent[j][k].value[1] \in {"obj", "arr"}

\* The value extraction yields from the text of stdout alone: the value of
\* the last line that parses, else the value of the whole text.
PayloadOf(text) ==
    IF ParsingLines(text) # {}
    THEN LastParsingValue(text)
    ELSE JSONParse(Trim(text)).val

\* C20: stdout and stderr are two append-only buffers: in every step each
\* buffer keeps what it held, a step that extends one leaves the other as it
\* was, the stdout buffer grows by one chunk exactly when a stdout chunk is
\* counted and the stderr buffer when a stderr chunk is; and the result sent
\* on exit code 0 is the payload of the stdout buffer alone.
C20_SeparateAppendOnlyBuffers ==
    [][\A j \in JobIds :
          /\ IsPrefixOf(resultData[j], resultData'[j])
          /\ IsPrefixOf(errorData[j], errorData'[j])
          /\ resultData'[j] # resultData[j]
               => /\ errorData'[j] = errorData[j]
                  /\ nOut'[j] = nOut[j] + 1 /\ nErr'[j] = nErr[j]
          /\ errorData'[j] # errorData[j]
               => /\ resultData'[j] = resultData[j]
                  /\ nErr'[j] = nErr[j] + 1 /\ nOut'[j] = nOut[j]
          /\ (pc[j] = "running" /\ closes'[j] = <<Code(0)>>
                  /\ sent'[j][1].kind = "result")
               => sent'[j][1].value = PayloadOf(resultData'[j])]_vars

\* A worker wrote to both streams and exited with code 0 and a result.
C20_BothStreamsWritten ==
    /\ nOut[1] >= 2
    /\ nErr[1] = 2
    /\ Exited(1, Code(0))
    /\ sent[1][1].kind = "result"
    /\ Len(errorData[1]) > Len(resultData[1])

\* C21: two runs whose workers wrote the same bytes to stdout and the same
\* bytes to stderr and exited with the same code were sent the same body,
\* however the bytes were cut into chunks and however the chunks of the two
\* streams were interleaved.
C21_SameOutputSameResult ==
    \A j, k \in JobIds :
        (/\ tracing
         /\ errors[j] = <<>> /\ errors[k] = <<>>
         /\ closes[j] # <<>> /\ closes[k] = closes[j]
         /\ stdoutBytes[j] = stdoutBytes[k]
         /\ stderrBytes[j] = stderrBytes[k])
            => sent[j] = sent[k]

\* The calls of job j that look an interpreter up.
Probes(j) ==
    {k \in 1..Len(calls[j]) :
        calls[j][k].arg \in {pythonPaths[i] : i \in 1..Len(pythonPaths)}
        /\ calls[j][k].fn \in {"existsSync", "execSync"}}

\* C22: the checks run in the order goal, script, interpreter, spawn, and the
\* first that fails decides: a request without a goal makes no call at all;
\* any other request first checks the script, and when the script is missing
\* it is answered 'Python script not found at' and makes no other call,
\* whether or not an interpreter resolves; every interpreter lookup comes
\* after the script check, and a spawn comes last, after the lookups.
C22_ChecksInFixedOrder ==
    \A j \in JobIds :
        Arrived(j)
            => /\ ~HasGoal(j)
                    => /\ calls[j] = <<>>
                       /\ sent[j] = <<ErrorBody("University goal is required",
                                                <<>>)>>
               /\ HasGoal(j)
                    => /\ calls[j][1] = Call("existsSync", scriptPath)
                       /\ \A k \in 2..Len(calls[j]) :
                              calls[j][k] # Call("existsSync", scriptPath)
               /\ (HasGoal(j) /\ scriptPath \notin fs)
                    => /\ calls[j] = <<Call("existsSync", scriptPath)>>
                       /\ sent[j][1].template = "Python script not found at"
               /\ (HasGoal(j) /\ scriptPath \in fs /\ Resolvable = {})
                    => /\ Probes(j) = 2..Len(calls[j])
                       /\ sent[j][1].template =
                              "Python not found. Please ensure Python 3 is installed."
               /\ \A k \in Spawns(j) :
                      /\ k = Len(calls[j])
                      /\ Probes(j) = 2..(k - 1)
                      /\ Probes(j) # {}

\* A valid request was handled where the script and every interpreter are
\* missing, and it was answered that the script was not found.
C22_ScriptAndInterpretersMissing ==
    /\ HasGoal(1)
    /\ fs = {}
    /\ sent[1] = <<ErrorBody("Python script not found at", <<scriptPath>>)>>
    /\ Probes(1) = {}

====
